---- MODULE Spec2Model ----
(***************************************************************************)
(* Model of src/src/NetworkTest/index.ts: the subscriber MOS polling loop  *)
(* (subsriberMOS), its quality state (MOSState) and the score estimators   *)
(* (calculateVideoScore, calculateAudioScore).                             *)
(*                                                                         *)
(* JavaScript numbers are records [kind, val]: kind "num" carries a fixed- *)
(* point integer in val, the kinds "nan", "inf" and "ninf" are NaN,        *)
(* +Infinity and -Infinity, and kind "undefined" is the value undefined.   *)
(* Bitrates and throughput are in bits per second, scores in hundredths    *)
(* (a video score of 5 is 500), logarithms and ratios in thousandths.      *)
(***************************************************************************)
EXTENDS Integers, Sequences, FiniteSets, TLC

VARIABLES
    statsLog,        \* mosState.statsLog
    audioScoresLog,  \* mosState.audioScoresLog
    videoScoresLog,  \* mosState.videoScoresLog
    bandwidth,       \* mosState.bandwidth
    intervalId,      \* mosState.intervalId (0 is undefined)
    timerArmed,      \* whether window's interval timer of the probe is active
    pending,         \* subscriber.getStats requests whose callback is not yet delivered
    source,          \* the statistics source: requests issued, latest cumulative snapshot
    stream,          \* subscriber.stream
    hasListener,     \* whether getStatsListener is a function
    callbackCalls,   \* the invocations of the completion callback, as <<score, bandwidth>>
    destroyed,       \* whether the subscriber's 'destroyed' event has fired
    lastStep,        \* what the latest run of the getStats callback did
    networkTest      \* the call of the NetworkTest constructor and the instance it left

vars == <<statsLog, audioScoresLog, videoScoresLog, bandwidth, intervalId, timerArmed,
          pending, source, stream, hasListener, callbackCalls, destroyed, lastStep,
          networkTest>>

mosVars == <<statsLog, audioScoresLog, videoScoresLog, bandwidth>>

----------------------------------------------------------------------------
(* JavaScript values *)

Num(v) == [kind |-> "num", val |-> v]
NaN == [kind |-> "nan", val |-> 0]
PosInf == [kind |-> "inf", val |-> 0]
NegInf == [kind |-> "ninf", val |-> 0]
Undefined == [kind |-> "undefined", val |-> 0]

IsNum(x) == x.kind = "num"

\* a + b of two numbers
JsAdd(a, b) ==
    IF a.kind = "nan" \/ b.kind = "nan" THEN NaN
    ELSE IF a.kind = "num" /\ b.kind = "num" THEN Num(a.val + b.val)
    ELSE IF a.kind = "num" THEN b
    ELSE IF b.kind = "num" THEN a
    ELSE IF a.kind = b.kind THEN a
    ELSE NaN

\* a < b of two numbers: false when either is NaN
JsLt(a, b) ==
    IF a.kind = "nan" \/ b.kind = "nan" THEN FALSE
    ELSE IF a.kind = "ninf" THEN b.kind # "ninf"
    ELSE IF a.kind = "inf" THEN FALSE
    ELSE IF b.kind = "ninf" THEN FALSE
    ELSE IF b.kind = "inf" THEN TRUE
    ELSE a.val < b.val

\* Math.min(a, b): NaN when either is NaN
JsMin(a, b) ==
    IF a.kind = "nan" \/ b.kind = "nan" THEN NaN
    ELSE IF JsLt(b, a) THEN b ELSE a

\* the mutation of JsMin that takes the larger argument
JsMax(a, b) ==
    IF a.kind = "nan" \/ b.kind = "nan" THEN NaN
    ELSE IF JsLt(a, b) THEN b ELSE a

\* x / y of two integers, one of them scaled by `scale`: (x * scale) / y without
\* overflowing 32 bits, NaN or an infinity when y is 0
JsDivInt(x, scale, y) ==
    IF y = 0
    THEN IF x = 0 THEN NaN ELSE IF x > 0 THEN PosInf ELSE NegInf
    ELSE LET ay == IF y < 0 THEN 0 - y ELSE y
             sx == IF y < 0 THEN 0 - x ELSE x
         IN  Num((sx \div ay) * scale + ((sx % ay) * scale) \div ay)

----------------------------------------------------------------------------
(* Math.log in fixed point: LnMilli(x) is 1000 * ln(x / 1000) for x >= 1 *)

RECURSIVE Normalise(_, _)
\* <<m, e>> with x = m * 2^e and 1000 <= m < 2000
Normalise(x, e) ==
    IF x >= 2000 THEN Normalise(x \div 2, e + 1)
    ELSE IF x < 1000 THEN Normalise(x * 2, e - 1)
    ELSE <<x, e>>

RECURSIVE Log2Frac(_, _, _)
\* the first 10 binary digits of log2(y / 16384), 16384 <= y < 32768, in 1/1024
Log2Frac(y, i, acc) ==
    IF i = 0 THEN acc
    ELSE LET sq == (y * y) \div 16384
         IN  IF sq >= 32768
             THEN Log2Frac(sq \div 2, i - 1, 2 * acc + 1)
             ELSE Log2Frac(sq, i - 1, 2 * acc)

LnMilli(x) ==
    LET me == Normalise(x, 0)
        y == (me[1] * 16384) \div 1000
        f == Log2Frac(IF y < 16384 THEN 16384 ELSE y, 10, 0)
    IN  ((me[2] * 1024 + f) * 6931) \div 10240

\* x / y of two numbers, in units of 1/scale
JsDiv(x, scale, y) ==
    IF x.kind = "nan" \/ y.kind = "nan" THEN NaN
    ELSE IF IsNum(x) /\ IsNum(y) THEN JsDivInt(x.val, scale, y.val)
    ELSE IF IsNum(x) THEN Num(0)
    ELSE IF IsNum(y)
         THEN IF (x.kind = "inf") = (y.val >= 0) THEN PosInf ELSE NegInf
    ELSE NaN

\* Math.log(x / y) for a number x and an integer y > 0, in thousandths
JsLogRatio(x, y) ==
    IF x.kind = "nan" THEN NaN
    ELSE IF x.kind = "inf" THEN PosInf
    ELSE IF x.kind = "ninf" THEN NaN
    ELSE IF x.val < 0 THEN NaN
    ELSE IF x.val = 0 THEN NegInf
    ELSE Num(LnMilli(x.val) - LnMilli(y))

----------------------------------------------------------------------------
(* util: getOr, last, nth *)

getOr(default, field, ts) == IF field \in DOMAIN ts THEN ts[field] ELSE default

last(list) == IF Len(list) >= 1 THEN list[Len(list)] ELSE Undefined

\* nth(-k, list): the k-th entry from the end
nth(n, list) ==
    IF n < 0
    THEN IF Len(list) + n >= 0 THEN list[Len(list) + n + 1] ELSE Undefined
    ELSE IF n < Len(list) THEN list[n + 1] ELSE Undefined

\* !x of a snapshot, a stream or undefined
Falsy(x) == x = Undefined

----------------------------------------------------------------------------
(* NetworkTest: the constructor, validateOT and validateCredentials *)

Null == [kind |-> "null"]
Str(s) == [kind |-> "string", text |-> s]
Function == [kind |-> "function"]
\* an object with the properties props; a property that is absent is undefined
Obj(props) == [kind |-> "object", props |-> props]

\* !!x
ToBoolean(x) ==
    CASE x.kind \in {"undefined", "null", "nan"} -> FALSE
      [] x.kind = "string" -> x.text # ""
      [] x.kind = "num" -> x.val # 0
      [] OTHER -> TRUE

\* typeof x
TypeOf(x) ==
    CASE x.kind = "null" -> "object"
      [] x.kind \in {"num", "nan", "inf", "ninf"} -> "number"
      [] OTHER -> x.kind

\* x.name of a value that is not null or undefined
Prop(x, name) ==
    IF "props" \in DOMAIN x /\ name \in DOMAIN x.props THEN x.props[name] ELSE Undefined

\* the error validateOT throws, or "none"
validateOT(OT) ==
    IF ~ToBoolean(OT) \/ TypeOf(OT) # "object" \/ ~ToBoolean(Prop(OT, "initSession"))
    THEN "MissingOpenTokInstanceError"
    ELSE "none"

\* the error validateCredentials throws, or "none"
validateCredentials(credentials) ==
    IF ~ToBoolean(credentials)
    THEN "MissingSessionCredentialsError"
    ELSE IF \/ ~ToBoolean(Prop(credentials, "apiKey"))
            \/ ~ToBoolean(Prop(credentials, "sessionId"))
            \/ ~ToBoolean(Prop(credentials, "token"))
         THEN "IncompleteSessionCredentialsError"
         ELSE "none"

\* the outcome of a constructor call: the arguments, the error thrown and the
\* fields of this; a field that was never assigned is undefined
Constructed(args, thrown, OT, credentials, environment) ==
    [called |-> TRUE, args |-> args, thrown |-> thrown,
     OT |-> OT, credentials |-> credentials, environment |-> environment]

NotConstructed ==
    [called |-> FALSE, args |-> <<>>, thrown |-> "none",
     OT |-> Undefined, credentials |-> Undefined, environment |-> Undefined]

\* the constructor with validateCredentials called before validateOT
NetworkTestCredentialsFirst(OT, credentials, environment) ==
    LET args == <<OT, credentials, environment>>
    IN  IF validateCredentials(credentials) # "none"
        THEN Constructed(args, validateCredentials(credentials), Undefined, Undefined, Undefined)
        ELSE IF validateOT(OT) # "none"
        THEN Constructed(args, validateOT(OT), Undefined, Undefined, Undefined)
        ELSE Constructed(args, "none", OT, credentials,
                         IF environment = Undefined THEN Str("standard") ELSE environment)

\* new NetworkTest(OT, credentials, environment)
NetworkTest(OT, credentials, environment) ==
    LET args == <<OT, credentials, environment>>
    IN  IF validateOT(OT) # "none"
        THEN Constructed(args, validateOT(OT), Undefined, Undefined, Undefined)
        ELSE IF validateCredentials(credentials) # "none"
        THEN Constructed(args, validateCredentials(credentials), Undefined, Undefined, Undefined)
        ELSE Constructed(args, "none", OT, credentials,
                         IF environment = Undefined THEN Str("standard") ELSE environment)

\* the arguments the constructor is called with
OpenTokValues ==
    {Undefined, Null, Str("OT"), Function,
     Obj([initSession |-> Undefined]), Obj([initSession |-> Function])}

CredentialField == {Undefined, Str(""), Str("value")}

CredentialsValues ==
    {Undefined, Null}
    \cup {Obj([apiKey |-> k, sessionId |-> s, token |-> t]) :
             k \in CredentialField, s \in CredentialField, t \in CredentialField}

EnvironmentValues == {Undefined, Str("standard"), Str("enterprise")}

\* an OpenTok object and a full set of credentials
OpenTok == Obj([initSession |-> Function])
SessionCredentials ==
    Obj([apiKey |-> Str("value"), sessionId |-> Str("value"), token |-> Str("value")])

----------------------------------------------------------------------------
(* Sample accessors and delta calculators *)

getPacketsLost(ts) == getOr(0, "packetsLost", ts)
getPacketsReceived(ts) == getOr(0, "packetsReceived", ts)
getTotalPackets(ts) == getPacketsLost(ts) + getPacketsReceived(ts)

calculateTotalPackets(type, current, previous) ==
    getTotalPackets(current[type]) - getTotalPackets(previous[type])

\* bits per second
calculateBitRate(type, current, previous) ==
    LET interval == current.timestamp - previous.timestamp
    IN  JsDivInt(8 * (current[type].bytesReceived - previous[type].bytesReceived),
                 1000, interval)

----------------------------------------------------------------------------
(* calculateVideoScore *)

MIN_VIDEO_BITRATE == 30000

\* 10 ** (2.069924867 * (Math.log10(pixelCount) ** 0.6250223771)), rounded to an
\* integer, at the pixel counts the model uses (10x10, 320x240, 640x480, 1280x720,
\* and the degenerate ones). Math.log10 of 0 is -Infinity, whose power is +Infinity;
\* Math.log10 of a negative number is NaN; Math.log10 of 1 is 0, whose power is 0.
targetBitrateForPixelCount(pixelCount) ==
    CASE pixelCount < 0 -> NaN
      [] pixelCount = 0 -> PosInf
      [] pixelCount = 1 -> Num(1)
      [] pixelCount = 100 -> Num(1557)
      [] pixelCount = 76800 -> Num(379024)
      [] pixelCount = 307200 -> Num(997619)
      [] pixelCount = 921600 -> Num(2088636)

\* calculateVideoScore without bitrate = Math.min(bitrate, targetBitrate)
calculateVideoScoreUnclamped(strm, stats) ==
    LET currentStats == last(stats)
        lastStats == nth(-2, stats)
    IN  IF Falsy(currentStats) \/ Falsy(lastStats) \/ Falsy(strm)
        THEN Num(0)
        ELSE LET bitrate == calculateBitRate("video", currentStats, lastStats)
                 pixelCount == strm.videoDimensions.width * strm.videoDimensions.height
                 targetBitrate == targetBitrateForPixelCount(pixelCount)
             IN  IF JsLt(bitrate, Num(MIN_VIDEO_BITRATE))
                 THEN Num(0)
                 ELSE JsAdd(JsDiv(JsLogRatio(bitrate, MIN_VIDEO_BITRATE), 400,
                                  JsLogRatio(targetBitrate, MIN_VIDEO_BITRATE)),
                            Num(100))

calculateVideoScore(strm, stats) ==
    LET currentStats == last(stats)
        lastStats == nth(-2, stats)
    IN  IF Falsy(currentStats) \/ Falsy(lastStats) \/ Falsy(strm)
        THEN Num(0)
        ELSE LET bitrate == calculateBitRate("video", currentStats, lastStats)
                 pixelCount == strm.videoDimensions.width * strm.videoDimensions.height
                 targetBitrate == targetBitrateForPixelCount(pixelCount)
                 clamped == JsMin(bitrate, targetBitrate)
             IN  IF JsLt(bitrate, Num(MIN_VIDEO_BITRATE))
                 THEN Num(0)
                 ELSE JsAdd(JsDiv(JsLogRatio(clamped, MIN_VIDEO_BITRATE), 400,
                                  JsLogRatio(targetBitrate, MIN_VIDEO_BITRATE)),
                            Num(100))

----------------------------------------------------------------------------
(* calculateAudioScore *)

LOCAL_DELAY == 20

\* R of audioScore, in hundredths: rRtt in ms, packetLoss a number in thousandths.
\* a = 0, b = 19.8, c = 29.7; h(x) is 0 for x < 0 and 1 otherwise
R(rRtt, packetLoss) ==
    LET d == rRtt + LOCAL_DELAY
        id == IF 10 * d - 1773 < 0 THEN 0
              ELSE ((24 * d + 110) * (10 * d - 1773)) \div 100
        arg == IF IsNum(packetLoss)
               THEN Num(1000 + (297 * packetLoss.val) \div 10)
               ELSE packetLoss
        ln == IF arg.kind = "nan" \/ arg.kind = "ninf" THEN NaN
              ELSE IF arg.kind = "inf" THEN PosInf
              ELSE IF arg.val < 0 THEN NaN
              ELSE IF arg.val = 0 THEN NegInf
              ELSE Num(LnMilli(arg.val))
    IN  IF ln.kind = "nan" THEN NaN
        ELSE IF ln.kind = "inf" THEN NegInf
        ELSE IF ln.kind = "ninf" THEN PosInf
        ELSE Num(9420 - id - (198 * ln.val) \div 100)

\* (1 + 0.035) * ((mosR + 7.10 / 1000000) * (mosR * (mosR - 60) * (100 - mosR))),
\* in hundredths; 7.10 / 1000000 is below the resolution
MOSPolynomial(mosR) ==
    IF mosR.kind = "nan" THEN NaN
    ELSE IF mosR.kind = "inf" \/ mosR.kind = "ninf" THEN NegInf
    ELSE LET r == mosR.val
             cubic == (((r * (r - 6000)) \div 1000) * (10000 - r)) \div 1000
             x == r * cubic
         IN  Num(x + (x \div 1000) * 35)

\* MOS of audioScore: the two range tests call R with no arguments
MOS(mosR) ==
    IF JsLt(R(0, Num(0)), Num(0)) THEN Num(100)
    ELSE IF JsLt(Num(10000), R(0, Num(0))) THEN Num(450)
    ELSE MOSPolynomial(mosR)

audioScore(rtt, plr) == MOS(R(rtt, plr))

\* getPacketsLost(currentStats.audio) - getPacketsLost(lastStats.audio) / totalAudioPackets,
\* in thousandths: the division binds before the subtraction
packetLossRatio(currentStats, lastStats) ==
    JsAdd(Num(1000 * getPacketsLost(currentStats.audio)),
          JsDivInt(0 - getPacketsLost(lastStats.audio), 1000,
                   calculateTotalPackets("audio", currentStats, lastStats)))

\* calculateAudioScore without the totalAudioPackets === 0 check
calculateAudioScoreUnguarded(strm, stats) ==
    LET currentStats == last(stats)
        lastStats == nth(-2, stats)
    IN  IF Falsy(currentStats) \/ Falsy(lastStats) \/ Falsy(strm)
        THEN Num(0)
        ELSE audioScore(0, packetLossRatio(currentStats, lastStats))

calculateAudioScore(strm, stats) ==
    LET currentStats == last(stats)
        lastStats == nth(-2, stats)
    IN  IF Falsy(currentStats) \/ Falsy(lastStats) \/ Falsy(strm)
        THEN Num(0)
        ELSE LET totalAudioPackets == calculateTotalPackets("audio", currentStats, lastStats)
             IN  IF totalAudioPackets = 0
                 THEN Num(0)
                 ELSE audioScore(0, packetLossRatio(currentStats, lastStats))

----------------------------------------------------------------------------
(* calculateThroughput and isBitrateSteadyState: imported by the module, modelled *)
(* from sections 4.3 and 4.4 of the specification                                 *)

SteadyWindow == 3
SteadyTolerancePercent == 5

\* bits per second (audio and video) received between the first and the latest
\* snapshot of the history; no estimate with fewer than two snapshots
calculateThroughput(stats) ==
    IF Len(stats) < 2 THEN Undefined
    ELSE LET first == stats[1]
             latest == stats[Len(stats)]
             bytes == (latest.video.bytesReceived + latest.audio.bytesReceived)
                      - (first.video.bytesReceived + first.audio.bytesReceived)
         IN  JsDivInt(8 * bytes, 1000, latest.timestamp - first.timestamp)

\* true when the video bitrates of the trailing SteadyWindow snapshots are finite
\* and each differs from the one before by at most SteadyTolerancePercent
isBitrateSteadyState(stats) ==
    /\ Len(stats) >= SteadyWindow
    /\ \A i \in (Len(stats) - SteadyWindow + 2) .. (Len(stats) - 1) :
          LET before == calculateBitRate("video", stats[i], stats[i - 1])
              after == calculateBitRate("video", stats[i + 1], stats[i])
              diff == IF after.val >= before.val THEN after.val - before.val
                      ELSE before.val - after.val
          IN  /\ IsNum(before) /\ IsNum(after)
              /\ before.val >= 0
              /\ 100 * diff <= SteadyTolerancePercent * before.val

----------------------------------------------------------------------------
(* MOSState *)

\* the static member MOSState.maxLogLength
MOSState_maxLogLength == 1000

\* the instance field this.maxLogLength: declared, and assigned neither by the
\* constructor nor anywhere else
maxLogLength == Undefined

\* length > bound of an integer and a number or undefined: undefined converts to
\* NaN, and every comparison with NaN is false
JsGt(length, bound) == JsLt(IF bound = Undefined THEN NaN ELSE bound, Num(length))

RECURSIVE pruneScores(_)
\* the loop of pruneAudioScores and pruneVideoScores
pruneScores(scoresLog) ==
    IF JsGt(Len(scoresLog), maxLogLength) THEN pruneScores(Tail(scoresLog))
    ELSE scoresLog

\* pruneAudioScores that keeps only the newest score
pruneAudioScoresToOne(log) == IF Len(log) > 1 THEN Tail(log) ELSE log

pruneAudioScores(log) == pruneScores(log)
pruneVideoScores(log) == pruneScores(log)

RECURSIVE SumFrom(_, _, _)
\* scoresLog.reduce((acc, score) => acc + score, 0)
SumFrom(scoresLog, i, acc) ==
    IF i > Len(scoresLog) THEN acc
    ELSE SumFrom(scoresLog, i + 1, JsAdd(acc, scoresLog[i]))

MOSState_audioScore(audioLog) == SumFrom(audioLog, 1, Num(0))
MOSState_videoScore(videoLog) == SumFrom(videoLog, 1, Num(0))

\* the mutation of qualityScore that takes the larger sum
qualityScoreMax(audioLog, videoLog) ==
    JsMax(MOSState_audioScore(audioLog), MOSState_videoScore(videoLog))

qualityScore(audioLog, videoLog) ==
    JsMin(MOSState_audioScore(audioLog), MOSState_videoScore(videoLog))

\* clearInterval run with `this` bound to receiver. Bound to mosState it cancels
\* the timer named by intervalId and clears the field. Bound to anything else it
\* reads and writes that object's intervalId (the subscriber has none, so no
\* timer is cancelled), or throws a TypeError when `this` is undefined: the
\* fields of mosState are left alone.
\* clearInterval that cancels the timer but leaves the handle in intervalId
clearIntervalKeepsHandle(receiver) ==
    IF receiver = "mosState"
    THEN /\ timerArmed' = (IF intervalId # 0 THEN FALSE ELSE timerArmed)
         /\ UNCHANGED intervalId
    ELSE UNCHANGED <<timerArmed, intervalId>>

clearInterval(receiver) ==
    IF receiver = "mosState"
    THEN /\ timerArmed' = (IF intervalId # 0 THEN FALSE ELSE timerArmed)
         /\ intervalId' = 0
    ELSE UNCHANGED <<timerArmed, intervalId>>

----------------------------------------------------------------------------
(* The statistics source *)

MaxTicks == 4
MaxPending == 2
LongTicks == 1002

TrackStats(lost, received, bytes) ==
    [packetsLost |-> lost, packetsReceived |-> received, bytesReceived |-> bytes]

Snapshot(ts, audio, video) == [timestamp |-> ts, audio |-> audio, video |-> video]

\* what one sampling interval adds to the cumulative counters: a steady 500 kbit/s
\* of video, and a snapshot repeated with the timestamp of the one before
DeltaSteady == Snapshot(1000, TrackStats(0, 50, 4000), TrackStats(0, 60, 62500))
DeltaRepeat == Snapshot(0, TrackStats(0, 0, 0), TrackStats(0, 0, 0))

Deltas == {DeltaSteady, DeltaRepeat}

\* track statistics that carry no packet counters
BytesOnly(bytes) == [bytesReceived |-> bytes]

AddTrack(t, d) == [f \in DOMAIN t |-> t[f] + d[f]]

Advance(s, d) ==
    Snapshot(s.timestamp + d.timestamp, AddTrack(s.audio, d.audio), AddTrack(s.video, d.video))

\* what getStats can hand to its callback: a snapshot, nothing at all, an error
\* alone, or an error together with a snapshot
Responses(src) ==
    {[error |-> FALSE, stats |-> Advance(src.stats, d)] : d \in Deltas}
    \cup {[error |-> e, stats |-> Undefined] : e \in BOOLEAN}
    \cup {[error |-> TRUE, stats |-> Advance(src.stats, DeltaSteady)]}

\* a source that never fails and whose bitrate alternates, so that it never settles
SerialResponse(src) ==
    [error |-> FALSE,
     stats |-> Advance(src.stats,
                       IF src.requests % 2 = 0
                       THEN Snapshot(1000, BytesOnly(4000), BytesOnly(62500))
                       ELSE Snapshot(1000, BytesOnly(500), BytesOnly(3000)))]

Stream(w, h) == [videoDimensions |-> [width |-> w, height |-> h]]

----------------------------------------------------------------------------
(* subsriberMOS *)

NoRequest == [id |-> 0, error |-> FALSE, stats |-> Undefined]

Step(op, request, listenerCalled, evaluated, completed) ==
    [op |-> op, request |-> request, listenerCalled |-> listenerCalled,
     evaluated |-> evaluated, completed |-> completed]

InitCommon ==
    /\ statsLog = <<>>
    /\ audioScoresLog = <<>>
    /\ videoScoresLog = <<>>
    /\ bandwidth = Undefined
    /\ intervalId = 1
    /\ timerArmed = TRUE
    /\ pending = {}
    /\ callbackCalls = <<>>
    /\ destroyed = FALSE
    /\ lastStep = Step("none", NoRequest, FALSE, FALSE, FALSE)
    /\ networkTest = NetworkTest(OpenTok, SessionCredentials, Undefined)

Init ==
    /\ InitCommon
    /\ source = [requests |-> 0,
                 stats |-> Snapshot(0, TrackStats(0, 0, 0), TrackStats(0, 0, 0))]
    /\ stream = Stream(640, 480)
    /\ hasListener \in BOOLEAN

\* the interval callback: one subscriber.getStats request. The timer's period is
\* the instance field mosState.scoreInterval, which is never assigned; nothing makes
\* a tick wait for the callback of the tick before.
IntervalTick(limit, resp) ==
    /\ timerArmed
    /\ source.requests < limit
    /\ LET request == [id |-> source.requests + 1, error |-> resp.error,
                       stats |-> resp.stats]
       IN  pending' = pending \cup {request}
    /\ source' = [requests |-> source.requests + 1,
                  stats |-> IF Falsy(resp.stats) THEN source.stats ELSE resp.stats]
    /\ UNCHANGED <<mosVars, intervalId, timerArmed, stream, hasListener,
                   callbackCalls, destroyed, lastStep, networkTest>>

\* the mutation of TooFewSnapshots that lets a single snapshot through
TooFewSnapshotsOffByOne(log) == Len(log) < 1

\* mosState.statsLog.length < 2
TooFewSnapshots(log) == Len(log) < 2

\* the mutation of NoData that treats a missing snapshot as the end of the probe
NoDataStopsTimer(request) ==
    /\ lastStep' = Step("getStatsCallback", request, FALSE, FALSE, FALSE)
    /\ clearInterval("mosState")
    /\ UNCHANGED <<mosVars, callbackCalls>>

\* if (!stats) return null
NoData(request) ==
    /\ lastStep' = Step("getStatsCallback", request, FALSE, FALSE, FALSE)
    /\ UNCHANGED <<mosVars, intervalId, timerArmed, callbackCalls>>

\* the rest of the callback, for a request that carries a snapshot
Sample(request) ==
    LET log == Append(statsLog, request.stats)
        throughput == calculateThroughput(log)
        videoLog == pruneVideoScores(Append(videoScoresLog, calculateVideoScore(stream, log)))
        audioLog == pruneAudioScores(Append(audioScoresLog, calculateAudioScore(stream, log)))
    IN  /\ statsLog' = log
        /\ IF TooFewSnapshots(log)
           THEN /\ lastStep' = Step("getStatsCallback", request, hasListener, FALSE, FALSE)
                /\ UNCHANGED <<audioScoresLog, videoScoresLog, bandwidth, intervalId,
                               timerArmed, callbackCalls>>
           ELSE /\ bandwidth' = throughput
                /\ videoScoresLog' = videoLog
                /\ audioScoresLog' = audioLog
                /\ IF isBitrateSteadyState(log)
                   THEN /\ clearInterval("mosState")
                        /\ callbackCalls' =
                              Append(callbackCalls, <<qualityScore(audioLog, videoLog), throughput>>)
                        /\ lastStep' = Step("getStatsCallback", request, hasListener, TRUE, TRUE)
                   ELSE /\ lastStep' = Step("getStatsCallback", request, hasListener, TRUE, FALSE)
                        /\ UNCHANGED <<intervalId, timerArmed, callbackCalls>>

\* the callback handed to subscriber.getStats, delivered for one pending request
GetStatsCallback(request) ==
    /\ request \in pending
    /\ pending' = pending \ {request}
    /\ IF Falsy(request.stats) THEN NoData(request) ELSE Sample(request)
    /\ UNCHANGED <<source, stream, hasListener, destroyed, networkTest>>

\* the subscriber's 'destroyed' event: the handler is mosState.clearInterval,
\* passed unbound, so `this` is whatever the emitter calls it with
Destroyed ==
    /\ ~destroyed
    /\ destroyed' = TRUE
    /\ \E receiver \in {"subscriber", "undefined"} : clearInterval(receiver)
    /\ UNCHANGED <<mosVars, pending, source, stream, hasListener, callbackCalls, lastStep,
                   networkTest>>

Next ==
    \/ \E resp \in Responses(source) :
          Cardinality(pending) < MaxPending /\ IntervalTick(MaxTicks, resp)
    \/ \E request \in pending : GetStatsCallback(request)
    \/ Destroyed

Spec == Init /\ [][Next]_vars

\* a run in which every callback is delivered before the next tick, the snapshots
\* carry no packet counters, the stream is absent and no observer is supplied
InitLong ==
    /\ InitCommon
    /\ source = [requests |-> 0, stats |-> Snapshot(0, BytesOnly(0), BytesOnly(0))]
    /\ stream = Undefined
    /\ hasListener = FALSE

NextLong ==
    \/ pending = {} /\ IntervalTick(LongTicks, SerialResponse(source))
    \/ \E request \in pending : GetStatsCallback(request)

SpecLong == InitLong /\ [][NextLong]_vars

----------------------------------------------------------------------------
(* The estimators on their own: calculateVideoScore and calculateAudioScore applied *)
(* to a stream and a history drawn from the inputs below                            *)

\* bytes of video received over the latest interval: none, 24 kbit/s, just below and
\* at 30000 bit/s, 80 and 500 kbit/s, either side of the 640x480 target, and above
VideoByteDeltas == {0, 3000, 3749, 3750, 10000, 62500, 124702, 124703, 300000}

\* what the latest interval adds to the audio packets lost and received: nothing,
\* no loss, half lost, a tenth lost, one lost for one fewer received, and a counter
\* of lost packets that restarts
AudioPacketDeltas == {<<0, 0>>, <<0, 50>>, <<5, 5>>, <<1, 9>>, <<1, -1>>, <<-1, 51>>}

\* the snapshot before the latest, with lost audio packets lost so far
PreviousSnapshot(lost) == Snapshot(0, TrackStats(lost, 10, 0), TrackStats(0, 0, 0))

LatestSnapshot(previous, dt, videoBytes, packets) ==
    Advance(previous, Snapshot(dt, TrackStats(packets[1], packets[2], 0),
                               TrackStats(0, 0, videoBytes)))

\* the histories that end in an interval starting from previous
HistoriesAfter(previous) ==
    {<<previous, LatestSnapshot(previous, dt, bytes, packets)>> :
        dt \in {0, 1000}, bytes \in VideoByteDeltas,
        packets \in {d \in AudioPacketDeltas : previous.audio.packetsLost + d[1] >= 0}}

ScoreHistories ==
    {<<>>}
    \cup {<<PreviousSnapshot(lost)>> : lost \in {0, 1, 3}}
    \cup UNION {HistoriesAfter(PreviousSnapshot(lost)) : lost \in {0, 1, 3}}

ScoreStreams ==
    {Undefined, Stream(0, 0), Stream(-1, 1), Stream(10, 10), Stream(320, 240),
     Stream(640, 480), Stream(1280, 720)}

InitScore ==
    /\ statsLog \in ScoreHistories
    /\ stream \in ScoreStreams
    /\ audioScoresLog = <<>>
    /\ videoScoresLog = <<>>
    /\ bandwidth = Undefined
    /\ intervalId = 0
    /\ timerArmed = FALSE
    /\ pending = {}
    /\ source = [requests |-> 0, stats |-> Undefined]
    /\ hasListener = FALSE
    /\ callbackCalls = <<>>
    /\ destroyed = FALSE
    /\ lastStep = Step("none", NoRequest, FALSE, FALSE, FALSE)
    /\ networkTest = NetworkTest(OpenTok, SessionCredentials, Undefined)

\* mosState.videoScoresLog.push(calculateVideoScore(subscriber, mosState.statsLog))
ScoreVideo ==
    /\ videoScoresLog = <<>>
    /\ videoScoresLog' = <<calculateVideoScore(stream, statsLog)>>
    /\ UNCHANGED <<statsLog, audioScoresLog, bandwidth, intervalId, timerArmed, pending,
                   source, stream, hasListener, callbackCalls, destroyed, lastStep,
                   networkTest>>

\* mosState.audioScoresLog.push(calculateAudioScore(subscriber, mosState.statsLog))
ScoreAudio ==
    /\ audioScoresLog = <<>>
    /\ audioScoresLog' = <<calculateAudioScore(stream, statsLog)>>
    /\ UNCHANGED <<statsLog, videoScoresLog, bandwidth, intervalId, timerArmed, pending,
                   source, stream, hasListener, callbackCalls, destroyed, lastStep,
                   networkTest>>

NextScore == ScoreVideo \/ ScoreAudio

SpecScore == InitScore /\ [][NextScore]_vars

----------------------------------------------------------------------------
(* The constructor on its own: one call of new NetworkTest with arguments drawn  *)
(* from the values above; no probe is running                                    *)

InitCtor ==
    /\ networkTest = NotConstructed
    /\ statsLog = <<>>
    /\ stream = Undefined
    /\ audioScoresLog = <<>>
    /\ videoScoresLog = <<>>
    /\ bandwidth = Undefined
    /\ intervalId = 0
    /\ timerArmed = FALSE
    /\ pending = {}
    /\ source = [requests |-> 0, stats |-> Undefined]
    /\ hasListener = FALSE
    /\ callbackCalls = <<>>
    /\ destroyed = FALSE
    /\ lastStep = Step("none", NoRequest, FALSE, FALSE, FALSE)

Construct(OT, credentials, environment) ==
    /\ ~networkTest.called
    /\ networkTest' = NetworkTest(OT, credentials, environment)
    /\ UNCHANGED <<statsLog, audioScoresLog, videoScoresLog, bandwidth, intervalId,
                   timerArmed, pending, source, stream, hasListener, callbackCalls,
                   destroyed, lastStep>>

NextCtor ==
    \E OT \in OpenTokValues, credentials \in CredentialsValues,
       environment \in EnvironmentValues : Construct(OT, credentials, environment)

SpecCtor == InitCtor /\ [][NextCtor]_vars

----------------------------------------------------------------------------
(* Claims *)

\* C1: over any run of subsriberMOS the completion callback is invoked at most once.
C1_CallbackAtMostOnce == Len(callbackCalls) <= 1

\* C2: once the 'destroyed' event has fired, the interval timer is cancelled and
\* mosState.intervalId is cleared, so that no later tick runs.
C2_DestroyedCancelsTimer == destroyed => (~timerArmed /\ intervalId = 0)

\* the probe has terminated on steady state: the timer is cancelled and its handle cleared
Terminated == ~timerArmed /\ intervalId = 0

\* C3: once the probe is Terminated, a getStats callback delivered afterwards appends
\* to no log, leaves bandwidth alone and does not invoke the completion callback.
C3_LateCallbackIsNoOp ==
    [][Terminated => UNCHANGED <<statsLog, audioScoresLog, videoScoresLog, bandwidth,
                                 callbackCalls>>]_vars

\* C4: in every reachable state statsLog holds at most the cap of 1000 entries.
C4_StatsLogWithinCap == Len(statsLog) <= MOSState_maxLogLength

\* C5: after every completed tick audioScoresLog and videoScoresLog each hold at most
\* the cap of 1000 entries.
C5_ScoreLogsWithinCap ==
    /\ Len(audioScoresLog) <= MOSState_maxLogLength
    /\ Len(videoScoresLog) <= MOSState_maxLogLength

\* C6: at most one getStats request is outstanding at any time.
C6_OneRequestOutstanding == Cardinality(pending) <= 1

\* C7: whenever the completion callback is invoked, the steady-state detector holds of
\* the current statsLog, the score logs end with the scores of that tick, and the
\* arguments are the smaller of the two score sums and the throughput of that tick.
C7_CompletionArguments ==
    lastStep.completed =>
        /\ isBitrateSteadyState(statsLog)
        /\ callbackCalls # <<>>
        /\ videoScoresLog # <<>> /\ audioScoresLog # <<>>
        /\ videoScoresLog[Len(videoScoresLog)] = calculateVideoScore(stream, statsLog)
        /\ audioScoresLog[Len(audioScoresLog)] = calculateAudioScore(stream, statsLog)
        /\ bandwidth = calculateThroughput(statsLog)
        /\ callbackCalls[Len(callbackCalls)] =
              <<JsMin(SumFrom(audioScoresLog, 1, Num(0)), SumFrom(videoScoresLog, 1, Num(0))),
                bandwidth>>

\* a completion whose two score sums differ
C7_Witness ==
    /\ lastStep.completed
    /\ Len(callbackCalls) = 1
    /\ SumFrom(audioScoresLog, 1, Num(0)) # SumFrom(videoScoresLog, 1, Num(0))
    /\ IsNum(callbackCalls[1][1])

\* C8: the callback of a request that carries no snapshot, with or without an error,
\* leaves the logs and bandwidth unchanged, does not invoke the completion callback
\* and leaves the timer as it is.
C8_NoDataTickChangesNothing ==
    [][\A request \in pending :
          (Falsy(request.stats) /\ pending' = pending \ {request}) =>
              UNCHANGED <<statsLog, audioScoresLog, videoScoresLog, bandwidth,
                          callbackCalls, timerArmed, intervalId>>]_vars

\* an erroring request without a snapshot was delivered to a sampling probe
C8_Witness ==
    /\ lastStep.op = "getStatsCallback"
    /\ Falsy(lastStep.request.stats)
    /\ lastStep.request.error
    /\ statsLog # <<>>
    /\ timerArmed

\* C9: while statsLog holds fewer than two snapshots no throughput has been computed,
\* the score logs are empty, the detector has not been evaluated and the completion
\* callback has not been invoked.
C9_NothingBeforeTwoSnapshots ==
    Len(statsLog) < 2 =>
        /\ bandwidth = Undefined
        /\ audioScoresLog = <<>>
        /\ videoScoresLog = <<>>
        /\ callbackCalls = <<>>
        /\ ~lastStep.evaluated

\* the first snapshot was just appended
C9_Witness ==
    /\ Len(statsLog) = 1
    /\ lastStep.op = "getStatsCallback"
    /\ lastStep.request.stats = statsLog[1]

\* C10: a getStats error is forwarded to getStatsListener when one is supplied,
\* whether or not a snapshot accompanies it, and the error does not stop the timer.
C10_ErrorForwarded ==
    [][\A request \in pending :
          (request.error /\ pending' = pending \ {request}) =>
              /\ hasListener => lastStep'.listenerCalled
              /\ lastStep'.completed \/ UNCHANGED <<timerArmed, intervalId>>]_vars

\* width * height of a stream's video dimensions
PixelCountOf(strm) == strm.videoDimensions.width * strm.videoDimensions.height

\* C11: calculateVideoScore returns 0 whenever the history holds fewer than two
\* snapshots, there is no stream, or the pixel count is zero or negative, whatever
\* the bitrate.
C11_ZeroVideoScoreWithoutInput ==
    (/\ videoScoresLog # <<>>
     /\ \/ Len(statsLog) < 2
        \/ Falsy(stream)
        \/ PixelCountOf(stream) <= 0)
    => videoScoresLog[1] = Num(0)

\* C12: when the two most recent snapshots carry the same timestamp, the tick
\* appends no video score that is NaN, infinite or positive.
C12_ZeroIntervalIsNoSample ==
    (/\ lastStep.evaluated
     /\ Len(statsLog) >= 2
     /\ last(statsLog).timestamp = nth(-2, statsLog).timestamp)
    => /\ videoScoresLog # <<>>
       /\ IsNum(last(videoScoresLog))
       /\ last(videoScoresLog).val <= 0

\* the video bitrate over the latest interval of the history
AchievedBitrate == calculateBitRate("video", last(statsLog), nth(-2, statsLog))

\* a history whose latest interval is one second long and carries bytes of video
HistoryWithVideoBytes(bytes) == CHOOSE h \in HistoriesAfter(PreviousSnapshot(0)) :
    /\ h[2].timestamp = 1000
    /\ h[2].video.bytesReceived = bytes
    /\ h[2].audio = h[1].audio

\* a video score was computed for a positive pixel count and a finite bitrate
C13_Scored ==
    /\ videoScoresLog # <<>>
    /\ Len(statsLog) = 2
    /\ ~Falsy(stream)
    /\ PixelCountOf(stream) > 0
    /\ IsNum(AchievedBitrate)

\* C13: for a positive pixel count the video score is 0 for every bitrate below
\* 30000, does not decrease as the bitrate grows from 30000, and is 5 for every
\* bitrate that is at least 30000 and at or above the target bitrate.
C13_VideoScoreShape ==
    C13_Scored =>
        LET b == AchievedBitrate.val
            target == targetBitrateForPixelCount(PixelCountOf(stream)).val
            score == videoScoresLog[1]
        IN  /\ b < MIN_VIDEO_BITRATE => score = Num(0)
            /\ (b >= MIN_VIDEO_BITRATE /\ b >= target) => score = Num(500)
            /\ b >= MIN_VIDEO_BITRATE =>
                  /\ IsNum(score)
                  /\ \A bytes \in VideoByteDeltas :
                        (MIN_VIDEO_BITRATE <= 8 * bytes /\ 8 * bytes <= b) =>
                            LET lower == calculateVideoScore(stream, HistoryWithVideoBytes(bytes))
                            IN  IsNum(lower) /\ lower.val <= score.val

\* C13 as stated: the video score is 5 for every bitrate at or above the target
\* bitrate, and 0 for every bitrate below 30000.
C13_FiveAtOrAboveTarget ==
    C13_Scored =>
        LET b == AchievedBitrate.val
            target == targetBitrateForPixelCount(PixelCountOf(stream)).val
            score == videoScoresLog[1]
        IN  /\ b < MIN_VIDEO_BITRATE => score = Num(0)
            /\ b >= target => score = Num(500)

\* a bitrate strictly between 30000 and the target scored strictly between 1 and 5
C13_Witness ==
    /\ C13_Scored
    /\ AchievedBitrate.val > MIN_VIDEO_BITRATE
    /\ AchievedBitrate.val < targetBitrateForPixelCount(PixelCountOf(stream)).val
    /\ videoScoresLog[1].val > 100
    /\ videoScoresLog[1].val < 500

\* lost + received audio packets, latest snapshot minus the one before
AudioPacketDelta == calculateTotalPackets("audio", last(statsLog), nth(-2, statsLog))

\* C14: calculateAudioScore returns 0 whenever the audio packet delta between the
\* two most recent snapshots is 0, whatever the packetsLost values.
C14_ZeroAudioScoreWithoutPackets ==
    (/\ audioScoresLog # <<>>
     /\ Len(statsLog) = 2
     /\ AudioPacketDelta = 0)
    => audioScoresLog[1] = Num(0)

\* an audio score was computed for a stream over an interval in which one more
\* packet was lost and one fewer received
C14_Witness ==
    /\ audioScoresLog # <<>>
    /\ Len(statsLog) = 2
    /\ ~Falsy(stream)
    /\ AudioPacketDelta = 0
    /\ getPacketsLost(last(statsLog).audio) > getPacketsLost(nth(-2, statsLog).audio)

\* an audio score was computed by the E-model: a stream, two snapshots and a
\* non-zero audio packet delta
AudioScored ==
    /\ audioScoresLog # <<>>
    /\ Len(statsLog) = 2
    /\ ~Falsy(stream)
    /\ AudioPacketDelta # 0

\* the transmission rating of the inputs of the latest interval, in hundredths
RatingOfInputs == R(0, packetLossRatio(last(statsLog), nth(-2, statsLog)))

\* C15: the audio score is 1 when the rating R of the actual inputs is below 0,
\* 4.5 when it is above 100, and the polynomial of R only when 0 <= R <= 100.
C15_MOSBranchFollowsRating ==
    (AudioScored /\ IsNum(RatingOfInputs)) =>
        audioScoresLog[1] = IF RatingOfInputs.val < 0 THEN Num(100)
                            ELSE IF RatingOfInputs.val > 10000 THEN Num(450)
                            ELSE MOSPolynomial(RatingOfInputs)

\* C16: for audio counters that do not decrease and a positive packet delta, the
\* loss ratio given to the E-model is (lost now - lost before) / packet delta, and
\* so lies between 0 and 1.
C16_LossRatioIsLostOverTotal ==
    LET currentStats == last(statsLog)
        lastStats == nth(-2, statsLog)
    IN  (/\ AudioScored
         /\ AudioPacketDelta > 0
         /\ getPacketsLost(currentStats.audio) >= getPacketsLost(lastStats.audio)
         /\ getPacketsReceived(currentStats.audio) >= getPacketsReceived(lastStats.audio))
        => /\ packetLossRatio(currentStats, lastStats)
                = JsDivInt(getPacketsLost(currentStats.audio) - getPacketsLost(lastStats.audio),
                           1000, AudioPacketDelta)
           /\ packetLossRatio(currentStats, lastStats).val \in 0..1000

\* C17: the timestamps of consecutive statsLog entries never decrease, whatever
\* the order in which the getStats callbacks of different ticks are delivered.
C17_StatsLogInTimeOrder ==
    \A i \in 1..(Len(statsLog) - 1) : statsLog[i].timestamp <= statsLog[i + 1].timestamp

\* C18: the timer and its handle change only in the step that invokes the
\* completion callback or in the teardown step, and the step that invokes the
\* completion callback leaves the timer cancelled and intervalId cleared.
C18_TimerCancelledOnlyOnCompletion ==
    [][/\ (timerArmed' # timerArmed \/ intervalId' # intervalId)
            => (Len(callbackCalls') > Len(callbackCalls) \/ destroyed' # destroyed)
       /\ Len(callbackCalls') > Len(callbackCalls)
            => (intervalId' = 0 /\ ~timerArmed')]_vars

\* the probe completed after a tick that appended a NaN video score
C18_Witness ==
    /\ Len(callbackCalls) = 1
    /\ intervalId = 0
    /\ ~timerArmed
    /\ \E i \in 1..Len(videoScoresLog) : videoScoresLog[i] = NaN

\* C19: between steps audioScoresLog and videoScoresLog have the same length, which
\* (nothing having been pruned) is one less than the number of snapshots, or 0.
C19_OneScorePairPerLaterSnapshot ==
    /\ Len(audioScoresLog) = Len(videoScoresLog)
    /\ Len(videoScoresLog) = IF Len(statsLog) = 0 THEN 0 ELSE Len(statsLog) - 1

\* three snapshots were appended, the last by a tick that went on to the scores
C19_Witness ==
    /\ Len(statsLog) = 3
    /\ Len(audioScoresLog) = 2
    /\ Len(videoScoresLog) = 2
    /\ lastStep.evaluated
    /\ lastStep.request.stats = last(statsLog)

\* the OT argument is an object with an initSession property
UsableOT(OT) == OT \in {o \in OpenTokValues : o.kind = "object" /\ o.props.initSession # Undefined}

\* the credentials argument is an object
CredentialsGiven(credentials) == credentials \notin {Undefined, Null}

\* apiKey, sessionId and token are all non-empty strings
CredentialsComplete(credentials) ==
    /\ CredentialsGiven(credentials)
    /\ \A name \in {"apiKey", "sessionId", "token"} :
          /\ credentials.props[name] # Undefined
          /\ credentials.props[name] # Str("")

\* C20: a constructor call either throws or leaves an instance whose OT has
\* initSession and whose credentials have non-empty apiKey, sessionId and token; it
\* throws MissingOpenTokInstanceError for an unusable OT, otherwise
\* MissingSessionCredentialsError for absent credentials, otherwise
\* IncompleteSessionCredentialsError for incomplete ones, and when it throws no
\* field of the instance has been assigned.
C20_ConstructorValidates ==
    networkTest.called =>
        LET OT == networkTest.args[1]
            credentials == networkTest.args[2]
        IN  /\ networkTest.thrown = "none" =>
                  /\ networkTest.OT = OT /\ UsableOT(networkTest.OT)
                  /\ networkTest.credentials = credentials
                  /\ CredentialsComplete(networkTest.credentials)
            /\ networkTest.thrown # "none" =>
                  /\ networkTest.OT = Undefined
                  /\ networkTest.credentials = Undefined
                  /\ networkTest.environment = Undefined
            /\ networkTest.thrown =
                  (IF ~UsableOT(OT) THEN "MissingOpenTokInstanceError"
                   ELSE IF ~CredentialsGiven(credentials) THEN "MissingSessionCredentialsError"
                   ELSE IF ~CredentialsComplete(credentials)
                        THEN "IncompleteSessionCredentialsError"
                   ELSE "none")

\* the constructor was called with an object that has no initSession and with no
\* credentials, and threw
C20_Witness ==
    /\ networkTest.called
    /\ networkTest.args[1] = Obj([initSession |-> Undefined])
    /\ networkTest.args[2] = Undefined
    /\ networkTest.thrown = "MissingOpenTokInstanceError"

====
